---- MODULE Spec2Model ----
(***************************************************************************)
(* Model of scripts/tc2sc.py: the batch that converts the Traditional      *)
(* Chinese pages under src/zht into Simplified Chinese pages under src.    *)
(*                                                                         *)
(* A text is a sequence of characters, each character a one-letter string  *)
(* (the backtick is written BACKTICK). "T" stands for a Traditional        *)
(* Chinese character that OpenCC's t2s table maps to the Simplified        *)
(* character "S"; every other character of the alphabet is one that t2s    *)
(* leaves alone.                                                           *)
(***************************************************************************)
EXTENDS Integers, Sequences, FiniteSets, TLC

VARIABLES
    zht,        \* the source tree: zht[p] is the text of src/zht + paths_of_docs[p]
    dst,        \* the destination tree: dst[p] is the text of src + paths_of_docs[p], or NoFile
    dirs,       \* the manifest entries whose destination directory exists
    pc,         \* the position of the script in the body of the for loop
    path_of_doc,\* the loop variable: index into paths_of_docs
    doc,        \* the text read for the current entry
    res,        \* the list re.findall returned
    res_zht,    \* the list the inner loop appends to
    output,     \* the text to be written
    printed,    \* the lines printed so far
    reads,      \* history: the entries opened for reading, in order
    segmented,  \* history: the entries re.findall was called for
    converted,  \* history: converted[p] lists the calls of t2s.convert for entry p:
                \* the index in res of the span passed, and the span
    joined,     \* history: joined[p] is the value of output before output.replace
    written,    \* history: the entries whose write completed
    error       \* history: NoError, or the step and the entry that raised

vars == <<zht, dst, dirs, pc, path_of_doc, doc, res, res_zht, output, printed,
          reads, segmented, converted, joined, written, error>>

-----------------------------------------------------------------------------
(* Bounds of the model *)

\* number of manifest entries of a batch run
MaxManifest == 2
\* number of pieces a document of a batch run is made of
MaxBatchPieces == 1
\* number of pieces a document of a single-document run is made of
MaxPieces == 3
\* number of pieces a document of a marker-region run is made of
MaxRegionPieces == 4

-----------------------------------------------------------------------------
(* Literals of the script *)

DO_NOT_TRANSLATE ==
    <<"<","!","-","-"," ","d","o"," ","n","o","t"," ",
      "t","r","a","n","s","l","a","t","e"," ","-","-",">">>

VERBATIM ==
    <<"<","!","-","-"," ","v","e","r","b","a","t","i","m"," ","-","-",">">>

ZHT == <<"/","z","h","t","/">>

SLASH == <<"/">>

\* the backtick character (a backtick cannot be written in a TLA+ string)
BACKTICK == "bt"

TRANSLATED == "translated."

NOT_TRANSLATED == "not translated."

NoFile == "NoFile"

NoError == [step |-> "none", entry |-> 0]

-----------------------------------------------------------------------------
(* str methods *)

\* s[i:].startswith(p), 1-based
StartsAt(s, p, i) ==
    /\ i >= 1
    /\ i + Len(p) - 1 <= Len(s)
    /\ \A k \in 1..Len(p) : s[i + k - 1] = p[k]

startswith(s, p) == StartsAt(s, p, 1)

\* the least element of a set of positions, or 0 when it is empty
first_of(S) == IF S = {} THEN 0 ELSE CHOOSE j \in S : \A k \in S : j <= k

\* s.find(p, i), 1-based: the least j >= i where p occurs in s, or 0
find(s, p, i) == first_of({j \in i..(Len(s) - Len(p) + 1) : StartsAt(s, p, j)})

\* the scan of str.replace from position i: the next occurrence is replaced
\* and the scan goes on after it
RECURSIVE replace_from(_, _, _, _)
replace_from(s, old, new, i) ==
    LET j == find(s, old, i) IN
    IF j = 0 THEN SubSeq(s, i, Len(s))
    ELSE SubSeq(s, i, j - 1) \o new \o replace_from(s, old, new, j + Len(old))

\* a mutant: only the first occurrence is replaced (str.replace(old, new, 1))
replace_first(s, old, new) ==
    LET j == find(s, old, 1) IN
    IF j = 0 THEN s
    ELSE SubSeq(s, 1, j - 1) \o new \o SubSeq(s, j + Len(old), Len(s))

\* s.replace(old, new): left to right, non-overlapping
replace(s, old, new) == replace_from(s, old, new, 1)

RECURSIVE join(_)
join(l) == IF l = <<>> THEN <<>> ELSE Head(l) \o join(Tail(l))

-----------------------------------------------------------------------------
(* The converter *)

\* t2s.convert: character by character, "T" becomes "S"
convert(s) == [k \in 1..Len(s) |-> IF s[k] = "T" THEN "S" ELSE s[k]]

-----------------------------------------------------------------------------
(* The pattern. Each alternative gives the index of the last character of   *)
(* its match at i, or 0 when it does not match at i.                        *)

\* the lazy .+? followed by the closing character, tried from position j on:
\* the first closing character at or after j, if "." matches all before it
lazy_dot(s, close, j) ==
    LET c == first_of({k \in j..Len(s) : s[k] = close})
        n == first_of({k \in j..Len(s) : s[k] = "\n"})
    IN  IF c # 0 /\ (n = 0 \/ c < n) THEN c ELSE 0

\* (?:M[\S\s]+?M)
alt_marker(s, M, i) ==
    IF ~StartsAt(s, M, i) THEN 0
    ELSE LET j == find(s, M, i + Len(M) + 1) IN
         IF j = 0 THEN 0 ELSE j + Len(M) - 1

\* (?:`.+?`) and (?:<.+?>)
alt_delimited(s, open, close, i) ==
    IF s[i] # open \/ i + 1 > Len(s) \/ s[i + 1] = "\n" THEN 0
    ELSE lazy_dot(s, close, i + 2)

\* the end of the greedy run that the first character outside the class, at
\* position stop (0 when there is none), ends in a text of n characters
run(stop, n) == IF stop = 0 THEN n ELSE stop - 1

\* [^`<>]
plain_class(c) == c \notin {BACKTICK, "<", ">"}

\* [\r\n]
newline_class(c) == c \in {"\r", "\n"}

\* (?:[^`<>]+)
alt_plain(s, i) ==
    LET e == run(first_of({k \in i..Len(s) : ~plain_class(s[k])}), Len(s))
    IN  IF e >= i THEN e ELSE 0

\* (?:[\r\n]+)
alt_newlines(s, i) ==
    LET e == run(first_of({k \in i..Len(s) : ~newline_class(s[k])}), Len(s))
    IN  IF e >= i THEN e ELSE 0

\* (?:[<>])
alt_bracket(s, i) == IF s[i] \in {"<", ">"} THEN i ELSE 0

\* pat.match(s, i): the alternatives in the order of the pattern; the outer
\* (...)+? is lazy and nothing follows it, so a match is one alternative
pat(s, i) ==
    LET a1 == alt_marker(s, DO_NOT_TRANSLATE, i)
        a2 == alt_marker(s, VERBATIM, i)
        a3 == alt_delimited(s, BACKTICK, BACKTICK, i)
        a4 == alt_delimited(s, "<", ">", i)
        a5 == alt_plain(s, i)
        a6 == alt_newlines(s, i)
        a7 == alt_bracket(s, i)
    IN  IF a1 # 0 THEN [end |-> a1, kind |-> "verbatim"]
        ELSE IF a2 # 0 THEN [end |-> a2, kind |-> "verbatim"]
        ELSE IF a3 # 0 THEN [end |-> a3, kind |-> "code"]
        ELSE IF a4 # 0 THEN [end |-> a4, kind |-> "tag"]
        ELSE IF a5 # 0 THEN [end |-> a5, kind |-> "plain"]
        ELSE IF a6 # 0 THEN [end |-> a6, kind |-> "linebreak"]
        ELSE IF a7 # 0 THEN [end |-> a7, kind |-> "bracket"]
        ELSE [end |-> 0, kind |-> "none"]

\* the scan of re.findall from position i: the matches in order; a position
\* where the pattern does not match is stepped over (kind "skip")
RECURSIVE scan(_, _)
scan(s, i) ==
    IF i > Len(s) THEN <<>>
    ELSE LET m == pat(s, i) IN
         IF m.end = 0
         THEN <<[start |-> i, end |-> i, kind |-> "skip"]>> \o scan(s, i + 1)
         ELSE <<[start |-> i, end |-> m.end, kind |-> m.kind]>> \o scan(s, m.end + 1)

is_match(m) == m.kind # "skip"

\* the matches of the pattern in s, with their positions
finditer(s) == SelectSeq(scan(s, 1), is_match)

\* re.findall(pat, s): the text of each match
findall(s) ==
    LET ms == finditer(s) IN
    [k \in 1..Len(ms) |-> SubSeq(s, ms[k].start, ms[k].end)]

-----------------------------------------------------------------------------
(* The script *)

\* the number of manifest entries of the run
N == Len(zht)

\* a mutant: only the first marker is tested
bypass_first_marker_only(d) == startswith(d, DO_NOT_TRANSLATE)

\* the test of lines 96-99, negated: the document is copied through
bypass(d) == startswith(d, DO_NOT_TRANSLATE) \/ startswith(d, VERBATIM)

\* line 106
passes_through(span) == startswith(span, <<BACKTICK>>) \/ startswith(span, <<"<">>)

raise(step) ==
    /\ pc' = "crashed"
    /\ error' = [step |-> step, entry |-> path_of_doc]

\* lines 94-95
Read ==
    /\ pc = "open"
    /\ doc' = zht[path_of_doc]
    /\ reads' = Append(reads, path_of_doc)
    /\ pc' = "test"
    /\ UNCHANGED <<zht, dst, dirs, path_of_doc, res, res_zht, output, printed,
                   segmented, converted, joined, written, error>>

\* line 94 raises
ReadFail ==
    /\ pc = "open"
    /\ reads' = Append(reads, path_of_doc)
    /\ raise("read")
    /\ UNCHANGED <<zht, dst, dirs, path_of_doc, doc, res, res_zht, output, printed,
                   segmented, converted, joined, written>>

\* lines 96-104
Segment ==
    /\ pc = "test"
    /\ ~bypass(doc)
    /\ res' = findall(doc)
    /\ res_zht' = <<>>
    /\ segmented' = segmented \cup {path_of_doc}
    /\ pc' = "loop"
    /\ UNCHANGED <<zht, dst, dirs, path_of_doc, doc, output, printed,
                   reads, converted, joined, written, error>>

\* lines 105-107
PassThrough ==
    /\ pc = "loop"
    /\ Len(res_zht) < Len(res)
    /\ LET i == res[Len(res_zht) + 1] IN
       /\ passes_through(i)
       /\ res_zht' = Append(res_zht, i)
    /\ UNCHANGED <<zht, dst, dirs, pc, path_of_doc, doc, res, output, printed,
                   reads, segmented, converted, joined, written, error>>

\* lines 105-109
Convert ==
    /\ pc = "loop"
    /\ Len(res_zht) < Len(res)
    /\ LET i == res[Len(res_zht) + 1] IN
       /\ ~passes_through(i)
       /\ res_zht' = Append(res_zht, convert(i))
       /\ converted' = [converted EXCEPT ![path_of_doc] =
                         Append(@, [span |-> Len(res_zht) + 1, arg |-> i])]
    /\ UNCHANGED <<zht, dst, dirs, pc, path_of_doc, doc, res, output, printed,
                   reads, segmented, joined, written, error>>

\* line 109 raises
ConvertFail ==
    /\ pc = "loop"
    /\ Len(res_zht) < Len(res)
    /\ LET i == res[Len(res_zht) + 1] IN
       /\ ~passes_through(i)
       /\ converted' = [converted EXCEPT ![path_of_doc] =
                         Append(@, [span |-> Len(res_zht) + 1, arg |-> i])]
    /\ raise("convert")
    /\ UNCHANGED <<zht, dst, dirs, path_of_doc, doc, res, res_zht, output, printed,
                   reads, segmented, joined, written>>

\* a mutant: the translated branch prints nothing
JoinSilent ==
    /\ pc = "loop"
    /\ Len(res_zht) = Len(res)
    /\ output' = join(res_zht)
    /\ pc' = "replace"
    /\ UNCHANGED <<zht, dst, dirs, path_of_doc, doc, res, res_zht, printed,
                   reads, segmented, converted, joined, written, error>>

\* lines 110-111
Join ==
    /\ pc = "loop"
    /\ Len(res_zht) = Len(res)
    /\ output' = join(res_zht)
    /\ printed' = Append(printed, <<path_of_doc, TRANSLATED>>)
    /\ pc' = "replace"
    /\ UNCHANGED <<zht, dst, dirs, path_of_doc, doc, res, res_zht,
                   reads, segmented, converted, joined, written, error>>

\* a mutant: the bypassed branch prints the label of the other branch
BypassMislabelled ==
    /\ pc = "test"
    /\ bypass(doc)
    /\ output' = doc
    /\ printed' = Append(printed, <<path_of_doc, TRANSLATED>>)
    /\ pc' = "replace"
    /\ UNCHANGED <<zht, dst, dirs, path_of_doc, doc, res, res_zht,
                   reads, segmented, converted, joined, written, error>>

\* lines 112-114
Bypass ==
    /\ pc = "test"
    /\ bypass(doc)
    /\ output' = doc
    /\ printed' = Append(printed, <<path_of_doc, NOT_TRANSLATED>>)
    /\ pc' = "replace"
    /\ UNCHANGED <<zht, dst, dirs, path_of_doc, doc, res, res_zht,
                   reads, segmented, converted, joined, written, error>>

\* lines 115-116
Replace ==
    /\ pc = "replace"
    /\ joined' = [joined EXCEPT ![path_of_doc] = output]
    /\ output' = replace(output, ZHT, SLASH)
    /\ pc' = "makedirs"
    /\ UNCHANGED <<zht, dst, dirs, path_of_doc, doc, res, res_zht, printed,
                   reads, segmented, converted, written, error>>

\* line 117
Makedirs ==
    /\ pc = "makedirs"
    /\ dirs' = dirs \cup {path_of_doc}
    /\ pc' = "write"
    /\ UNCHANGED <<zht, dst, path_of_doc, doc, res, res_zht, output, printed,
                   reads, segmented, converted, joined, written, error>>

\* line 117 raises
MakedirsFail ==
    /\ pc = "makedirs"
    /\ raise("makedirs")
    /\ UNCHANGED <<zht, dst, dirs, path_of_doc, doc, res, res_zht, output, printed,
                   reads, segmented, converted, joined, written>>

\* a mutant: the error of the write is swallowed and the loop goes on
WriteFailSwallowed ==
    /\ pc = "write"
    /\ error' = [step |-> "write", entry |-> path_of_doc]
    /\ pc' = IF path_of_doc < N THEN "open" ELSE "done"
    /\ path_of_doc' = IF path_of_doc < N THEN path_of_doc + 1 ELSE path_of_doc
    /\ UNCHANGED <<zht, dst, dirs, doc, res, res_zht, output, printed,
                   reads, segmented, converted, joined, written>>

\* lines 118-119, then the next iteration of line 93
Write ==
    /\ pc = "write"
    /\ dst' = [dst EXCEPT ![path_of_doc] = output]
    /\ written' = written \cup {path_of_doc}
    /\ pc' = IF path_of_doc < N THEN "open" ELSE "done"
    /\ path_of_doc' = IF path_of_doc < N THEN path_of_doc + 1 ELSE path_of_doc
    /\ UNCHANGED <<zht, dirs, doc, res, res_zht, output, printed,
                   reads, segmented, converted, joined, error>>

\* lines 118-119 raise: open fails and the file is untouched, or the file is
\* opened (and truncated) and the write fails
WriteFail ==
    /\ pc = "write"
    /\ \E truncated \in BOOLEAN :
         dst' = IF truncated THEN [dst EXCEPT ![path_of_doc] = <<>>] ELSE dst
    /\ raise("write")
    /\ UNCHANGED <<zht, dirs, path_of_doc, doc, res, res_zht, output, printed,
                   reads, segmented, converted, joined, written>>

Next ==
    \/ Read
    \/ ReadFail
    \/ Segment
    \/ PassThrough
    \/ Convert
    \/ ConvertFail
    \/ Join
    \/ Bypass
    \/ Replace
    \/ Makedirs
    \/ MakedirsFail
    \/ Write
    \/ WriteFail

-----------------------------------------------------------------------------
(* The runs checked *)

\* the texts made of at most n pieces
RECURSIVE Texts(_, _)
Texts(Pieces, n) ==
    IF n = 0 THEN {<<>>}
    ELSE LET shorter == Texts(Pieces, n - 1) IN
         shorter \cup {t \o p : t \in shorter, p \in Pieces}

BatchPieces == {DO_NOT_TRANSLATE, VERBATIM, <<"T">>, <<"<">>}

DocPieces ==
    {DO_NOT_TRANSLATE, VERBATIM, <<BACKTICK>>, <<"<">>, <<">">>, <<"\n">>,
     <<"T">>, <<"a">>, ZHT, <<"z","h","t","/">>}

RegionPieces == {DO_NOT_TRANSLATE, VERBATIM, <<"<">>, <<"T">>, <<"a">>}

\* the state when the for loop starts on a source tree of n documents
InitOn(Docs, n) ==
    /\ zht \in [1..n -> Docs]
    /\ dst = [p \in 1..n |-> NoFile]
    /\ dirs = {}
    /\ pc = "open"
    /\ path_of_doc = 1
    /\ doc = <<>>
    /\ res = <<>>
    /\ res_zht = <<>>
    /\ output = <<>>
    /\ printed = <<>>
    /\ reads = <<>>
    /\ segmented = {}
    /\ converted = [p \in 1..n |-> <<>>]
    /\ joined = [p \in 1..n |-> <<>>]
    /\ written = {}
    /\ error = NoError

Init == InitOn(Texts(BatchPieces, MaxBatchPieces), MaxManifest)

InitDoc == InitOn(Texts(DocPieces, MaxPieces), 1)

InitRegion == InitOn(Texts(RegionPieces, MaxRegionPieces), 1)

\* a batch over a manifest of MaxManifest documents
Spec == Init /\ [][Next]_vars

\* one document, of any text of at most MaxPieces pieces
SpecDoc == InitDoc /\ [][Next]_vars

\* one document, of any text of at most MaxRegionPieces markers and delimiters
SpecRegion == InitRegion /\ [][Next]_vars

-----------------------------------------------------------------------------
(* Vocabulary of the properties *)

occurs(s, p) == find(s, p, 1) # 0

sentinel(d) ==
    \/ (Len(d) >= Len(DO_NOT_TRANSLATE) /\ SubSeq(d, 1, Len(DO_NOT_TRANSLATE)) = DO_NOT_TRANSLATE)
    \/ (Len(d) >= Len(VERBATIM) /\ SubSeq(d, 1, Len(VERBATIM)) = VERBATIM)

\* the inner loop has gone through all of res
transformed == pc = "loop" /\ Len(res_zht) = Len(res)

\* the indices in res of the spans passed to the converter for the current document
converted_spans == {converted[path_of_doc][c].span : c \in DOMAIN converted[path_of_doc]}

\* the number of occurrences of p in s that a left to right scan meets
RECURSIVE count_from(_, _, _)
count_from(s, p, i) ==
    IF i + Len(p) - 1 > Len(s) THEN 0
    ELSE IF SubSeq(s, i, i + Len(p) - 1) = p THEN 1 + count_from(s, p, i + Len(p))
    ELSE count_from(s, p, i + 1)

\* the run ended, normally or by an error
ended == pc \in {"done", "crashed"}

-----------------------------------------------------------------------------
(* C1 *)

\* C1: once the document is segmented, the matches are gap-free and
\* overlap-free from the first character to the last, and concatenating the
\* spans of res in order gives back the document.
C1_LosslessPartition ==
    pc = "loop" =>
        LET ms == finditer(doc) IN
        /\ join(res) = doc
        /\ \A k \in 1..Len(ms) :
             ms[k].start = (IF k = 1 THEN 1 ELSE ms[k - 1].end + 1)
        /\ (doc # <<>>) => (ms # <<>> /\ ms[Len(ms)].end = Len(doc))

-----------------------------------------------------------------------------
(* C2 *)

\* C2: for a document that does not start with a sentinel, the converter is
\* called on plain-text spans only (runs of characters other than backtick,
\* "<" and ">"), and every code span and tag of res is appended to res_zht as
\* it is and is not passed to the converter; the joined text is res_zht in order.
C2_SelectiveConversion ==
    /\ pc = "loop" =>
         LET ms == finditer(doc) IN
         /\ \A k \in converted_spans : ms[k].kind = "plain"
         /\ \A k \in 1..Len(res_zht) :
              ms[k].kind \in {"code", "tag"} =>
                  (res_zht[k] = res[k] /\ k \notin converted_spans)
    /\ (pc = "replace" /\ path_of_doc \in segmented) => output = join(res_zht)

-----------------------------------------------------------------------------
(* C3 *)

\* C3: a span that is a bare "<" or a bare ">" is never passed to the converter.
C3_LoneBracketsNotConverted ==
    \A p \in DOMAIN converted : \A c \in DOMAIN converted[p] :
        converted[p][c].arg \notin {<<"<">>, <<">">>}

-----------------------------------------------------------------------------
(* C4 *)

\* the first occurrence of M in d and the next occurrence after it
region(d, M) ==
    LET p == find(d, M, 1)
        q == IF p = 0 THEN 0 ELSE find(d, M, p + Len(M))
    IN  [open |-> p, close |-> q, last |-> q + Len(M) - 1]

\* C4: for a document that does not start with a sentinel, and each marker M
\* that occurs twice, no character from the first occurrence of M through the
\* end of the next one is stepped over or passed to the converter: every span
\* that overlaps the region is appended to res_zht as it is.
C4_InlineRegionExcluded ==
    transformed =>
        \A M \in {DO_NOT_TRANSLATE, VERBATIM} :
            LET r == region(doc, M)
                sc == scan(doc, 1)
                ms == finditer(doc)
            IN  r.close # 0 =>
                  /\ \A k \in 1..Len(sc) :
                       (sc[k].start <= r.last /\ sc[k].end >= r.open) => sc[k].kind # "skip"
                  /\ \A k \in 1..Len(ms) :
                       (ms[k].start <= r.last /\ ms[k].end >= r.open) =>
                           (k \notin converted_spans /\ res_zht[k] = res[k])

-----------------------------------------------------------------------------
(* C5 *)

\* C5: a document that starts with a sentinel is never segmented and nothing
\* of it is passed to the converter, its status line says "not translated",
\* and what is written is the source text with the path rewrite applied (the
\* source text itself when the token does not occur); any other document is
\* segmented and its status line says "translated".
C5_WholeDocumentBypass ==
    \A p \in 1..N :
        IF sentinel(zht[p])
        THEN /\ p \notin segmented
             /\ converted[p] = <<>>
             /\ p <= Len(printed) => printed[p] = <<p, NOT_TRANSLATED>>
             /\ p \in written =>
                  /\ dst[p] = replace_from(zht[p], ZHT, SLASH, 1)
                  /\ ~occurs(zht[p], ZHT) => dst[p] = zht[p]
                  /\ count_from(dst[p], <<"T">>, 1) = count_from(zht[p], <<"T">>, 1)
        ELSE /\ p <= Len(printed) => (printed[p] = <<p, TRANSLATED>> /\ p \in segmented)
             /\ p \in written => p \in segmented

\* a bypassed document with a Traditional character and the token is written
C5_Witness ==
    \E p \in written :
        /\ sentinel(zht[p])
        /\ occurs(zht[p], <<"T">>)
        /\ occurs(zht[p], ZHT)
        /\ dst[p] # zht[p]

-----------------------------------------------------------------------------
(* C6 *)

\* C6 as stated: no written text contains the token.
C6_NoTokenLeft == \A p \in written : ~occurs(dst[p], ZHT)

\* C6 as amended: each occurrence of the token that the left to right,
\* non-overlapping scan meets is replaced by "/" (four characters fewer per
\* occurrence), so the written text contains the token only if two
\* occurrences overlapped in the text before the step ("/zht/zht/"); a text
\* without the token is written as it was.
C6_PathRewrite ==
    \A p \in written :
        /\ occurs(dst[p], ZHT) => occurs(joined[p], ZHT \o <<"z","h","t","/">>)
        /\ Len(dst[p]) = Len(joined[p]) - 4 * count_from(joined[p], ZHT, 1)
        /\ count_from(dst[p], SLASH, 1) = count_from(joined[p], SLASH, 1) - count_from(joined[p], ZHT, 1)
        /\ ~occurs(joined[p], ZHT) => dst[p] = joined[p]

\* a converted text with two separate occurrences is written without any
C6_Witness ==
    \E p \in written :
        /\ p \in segmented
        /\ count_from(joined[p], ZHT, 1) = 2
        /\ ~occurs(dst[p], ZHT)

-----------------------------------------------------------------------------
(* C7 *)

\* C7: as long as no step has raised, entry k has the k-th status line and no
\* other, labelled by whether its text starts with a sentinel; every entry
\* before the current one is read once and written, no entry after the
\* current one is read, segmented, converted or written; at the end every
\* entry has its line.
C7_BatchOrdering ==
    error = NoError =>
        /\ Len(printed) \in {path_of_doc - 1, path_of_doc}
        /\ \A k \in 1..Len(printed) :
             printed[k] = <<k, IF sentinel(zht[k]) THEN NOT_TRANSLATED ELSE TRANSLATED>>
        /\ Len(reads) \in {path_of_doc - 1, path_of_doc}
        /\ \A k \in 1..Len(reads) : reads[k] = k
        /\ \A k \in 1..N :
             /\ k < path_of_doc => (k \in written /\ dst[k] # NoFile)
             /\ k > path_of_doc =>
                  (k \notin written /\ k \notin segmented /\ converted[k] = <<>> /\ dst[k] = NoFile)
        /\ pc \in {"replace", "makedirs", "write"} => Len(printed) = path_of_doc
        /\ pc = "done" => (Len(printed) = N /\ written = 1..N)

\* a batch of a bypassed and a translated document ran to its end
C7_Witness ==
    /\ pc = "done"
    /\ error = NoError
    /\ \E j, k \in 1..Len(printed) :
         j < k /\ printed[j][2] = NOT_TRANSLATED /\ printed[k][2] = TRANSLATED

-----------------------------------------------------------------------------
(* C8 *)

\* C8: once a step has raised for entry k the script has stopped for good;
\* every entry before k is written and holds its final text, entry k is not
\* written, no entry after k was read, segmented, converted or written, and
\* no entry was read twice.
C8_FailFast ==
    /\ \A j, k \in 1..Len(reads) : j < k => reads[j] < reads[k]
    /\ error # NoError =>
         /\ pc = "crashed"
         /\ ~ENABLED Next
         /\ error.entry = path_of_doc
         /\ error.entry \notin written
         /\ \A k \in 1..N :
              /\ k < error.entry =>
                   (k \in written /\ dst[k] = replace_from(joined[k], ZHT, SLASH, 1))
              /\ k > error.entry =>
                   /\ \A r \in 1..Len(reads) : reads[r] # k
                   /\ k \notin segmented
                   /\ converted[k] = <<>>
                   /\ k \notin written
                   /\ dst[k] = NoFile

\* the second entry raised after the first was written
C8_Witness ==
    /\ error # NoError
    /\ error.entry = 2
    /\ 1 \in written
    /\ N >= 2

-----------------------------------------------------------------------------
(* C9 *)

\* the characters after position i up to the end of its line
rest_of_line(d, i) ==
    LET n == first_of({k \in (i + 1)..Len(d) : d[k] = "\n"})
    IN  (i + 1)..(IF n = 0 THEN Len(d) ELSE n - 1)

\* a delimiter is opened at i and nothing closes it
unterminated(d, i) ==
    \/ d[i] = BACKTICK /\ \A k \in rest_of_line(d, i) : d[k] # BACKTICK
    \/ d[i] = "<" /\ \A k \in rest_of_line(d, i) : d[k] # ">"
    \/ \E M \in {DO_NOT_TRANSLATE, VERBATIM} :
         StartsAt(d, M, i) /\ find(d, M, i + Len(M)) = 0

\* C9: for a document that does not start with a sentinel, a delimiter that
\* the scan reaches and that nothing closes is kept as content (it is part of
\* a span of res), and every plain-text run after it is passed to the converter.
C9_UnterminatedFallback ==
    transformed =>
        LET sc == scan(doc, 1)
            args == {converted[path_of_doc][c].arg : c \in DOMAIN converted[path_of_doc]}
        IN  \A k \in 1..Len(sc) :
                unterminated(doc, sc[k].start) =>
                    /\ sc[k].kind # "skip"
                    /\ \A j \in (k + 1)..Len(sc) :
                         sc[j].kind = "plain" => SubSeq(doc, sc[j].start, sc[j].end) \in args

-----------------------------------------------------------------------------
(* C10 *)

\* C10 as stated: when the run has ended, the entries with a status line are
\* exactly the entries that were written.
C10_NoteAfterWrite == ended => written = 1..Len(printed)

\* C10 as amended: the status line of an entry is printed before its text is
\* rewritten and written, so every written entry has a status line, a run
\* that ends normally has a line for exactly the written entries, and an
\* entry whose makedirs or write raised has a status line and is not written.
C10_NoteBeforeWrite ==
    /\ written \subseteq 1..Len(printed)
    /\ pc \in {"replace", "makedirs", "write"} =>
         (Len(printed) = path_of_doc /\ path_of_doc \notin written)
    /\ pc = "done" => written = 1..Len(printed)
    /\ error.step \in {"makedirs", "write"} =>
         (error.entry <= Len(printed) /\ error.entry \notin written)

\* the write of an entry raised after its status line was printed
C10_Witness ==
    /\ error.step = "write"
    /\ Len(printed) = error.entry
    /\ error.entry \notin written

====
